---- MODULE Spec2Model ----
(***************************************************************************)
(* Model of extract_objects_from_images                                    *)
(* (src/app/services/booklet_ocr_service/section_extrator.py).             *)
(*                                                                         *)
(* One call of the function is one behaviour.  The inputs of the call      *)
(* (the list of images, the files on disk, what the detection model        *)
(* returns for each image, whether the model file loads) are fixed in the  *)
(* initial state; the actions are the statements of the function.          *)
(*                                                                         *)
(* Pixel coordinates returned by the detector are floats; they are         *)
(* modelled in half pixels (the raw value 7 is 3.5 px), so that the        *)
(* truncation done by int() is a real conversion.                          *)
(***************************************************************************)
EXTENDS Integers, Sequences, FiniteSets, TLC

VARIABLES
    images,      \* argument: sequence of one-key dicts [key, path]
    detector,    \* environment: what model(img) does for each image file
    modelFile,   \* environment: TRUE iff YOLO(...) can load the weights
    pc,          \* position in the function
    loads,       \* number of times the model was constructed
    idx,         \* 1-based index of img_dict in images (0 before the loop)
    img,         \* the opened image, NoneValue before Image.open
    res,         \* what model(img, ...) returned: sequence of Results
    j,           \* number of boxes of res already handled by the inner loops
    cropCalls,   \* number of img.crop calls made for the current item
    detections,  \* the dict detections of the current item
    results,     \* the local list results
    outcome,     \* "running", "returned" or "raised"
    returned,    \* the value handed to the caller (<<>> unless returned)
    error        \* the exception that left the function, NoError if none

\* The process that hosts the function: its invocations, which may overlap.
VARIABLES
    invPc,         \* per invocation: "idle", "load_model", "loop", "done", "raised"
    invLeft,       \* per invocation: items of its batch not yet processed
    invModel,      \* per invocation: the model object its local holds, 0 if none
    modelsLoaded   \* number of model objects constructed in the process so far

\* The HTTP API and the task queue behind it.
VARIABLES
    clock,       \* time, in token lifetimes' unit
    issued,      \* the tokens POST /api/get-token has handed out
    tasks,       \* the result backend: per task id, its state and result
    req,         \* the request being handled by get_task_status, if any
    resp         \* the last response sent

callVars == <<images, detector, modelFile, pc, loads, idx, img, res, j,
              cropCalls, detections, results, outcome, returned, error>>

procVars == <<invPc, invLeft, invModel, modelsLoaded>>

apiVars == <<clock, issued, tasks, req, resp>>

vars == <<callVars, procVars, apiVars>>

(***************************************************************************)
(* Bounds of the model.                                                    *)
(***************************************************************************)
MaxItems == 3
MaxDets == 2
MaxCalls == 2
MaxClock == 3
Lifetime == 2
MaxTasks == 2

(***************************************************************************)
(* Values.                                                                 *)
(***************************************************************************)
NoneValue == [kind |-> "None"]
NoError == [kind |-> "NoError"]
EmptyDict == [n \in {} |-> NoneValue]

\* The label vocabulary of the detection model: the class names the
\* function looks up, in class-id order (ids are 0-based).
ModelNames ==
    << "outlet_id",
       "name_1", "partner_code_1", "age_1", "date_1", "sign_1",
       "cheek_mark_1", "phn_number_1",
       "name", "partner_code", "age", "date", "sign",
       "cheek_mark", "phn_number" >>

ClassIds == 0 .. (Len(ModelNames) - 1)

Keys == {"outlet_copy", "partner_copy", "other_copy"}

\* Files the caller can name, and the pixel size of those that exist.
ExistingFiles == {"A.jpg", "B.jpg"}
Paths == ExistingFiles \cup {"missing.jpg"}
ImageSize(path) == IF path = "A.jpg" THEN <<4, 3>> ELSE <<6, 4>>

\* int(): truncation of a float toward zero (raw values are half pixels).
PyInt(raw) == IF raw >= 0 THEN raw \div 2 ELSE -((-raw) \div 2)

\* x1, y1, x2, y2 = map(int, xyxy[i].tolist())
IntBox(xyxy) == <<PyInt(xyxy[1]), PyInt(xyxy[2]), PyInt(xyxy[3]), PyInt(xyxy[4])>>

\* Boxes the detector may report for an image of the given path, raw (half
\* pixels), x1 < x2 and y1 < y2: one inside the image, one reaching past the
\* right edge, one narrower than a pixel (zero width once truncated).
RawBoxes(path) ==
    LET w == ImageSize(path)[1]
        h == ImageSize(path)[2]
    IN  { <<2, 1, 2 * w - 1, 2 * h - 2>>,
          <<-1, 2, 2 * w + 3, 2 * h>>,
          <<2, 2, 3, 4>> }

Detections(path) == [cls : ClassIds, xyxy : RawBoxes(path)]

SeqsUpTo(S, n) == UNION { [1 .. k -> S] : k \in 0 .. n }

(***************************************************************************)
(* The environment of a call.                                              *)
(***************************************************************************)
\* What model(img, conf, iou) does: raise, or return a list holding one
\* Results object for the one image passed in.
DetectorRaises == [kind |-> "raise"]
DetectorReturns(boxes) == [kind |-> "ok", res |-> << [boxes |-> boxes] >>]

Det(cls, xyxy) == [cls |-> cls, xyxy |-> xyxy]

\* Any detector output of at most MaxDets boxes for a file.
DetectorOutputs(path) ==
    {DetectorRaises}
        \cup {DetectorReturns(s) : s \in SeqsUpTo(Detections(path), MaxDets)}

\* A fixed page (4 x 3 px) with repeated classes (outlet_id, name_1 twice).
PageA ==
    DetectorReturns(<< Det(0, <<2, 1, 7, 4>>), Det(1, <<2, 2, 3, 4>>),
                       Det(0, <<-1, 2, 11, 6>>), Det(8, <<2, 1, 7, 4>>),
                       Det(1, <<2, 1, 7, 4>>) >>)

\* A fixed page (6 x 4 px) with a box wholly to the right of the image.
PageB ==
    DetectorReturns(<< Det(9, <<14, 2, 17, 6>>), Det(2, <<2, 2, 3, 4>>),
                       Det(10, <<2, 1, 11, 6>>) >>)

Items == [key : Keys, path : Paths]

\* A batch of up to MaxItems items over fixed pages.
InitBatch ==
    /\ images \in SeqsUpTo(Items, MaxItems)
    /\ detector \in { [p \in ExistingFiles |-> IF p = "A.jpg" THEN PageA ELSE b] :
                        b \in {PageB, DetectorReturns(<<>>), DetectorRaises} }

\* A batch of one item over any detector output.
InitItem ==
    /\ images \in { <<[key |-> k, path |-> p]>> : k \in Keys, p \in Paths }
    /\ detector \in { [p \in ExistingFiles |->
                          IF p = "A.jpg" THEN a ELSE DetectorReturns(<<>>)] :
                        a \in IF images[1].path = "A.jpg"
                              THEN DetectorOutputs("A.jpg")
                              ELSE {PageA} }

InitLocals ==
    /\ modelFile \in BOOLEAN
    /\ pc = "load_model"
    /\ loads = 0
    /\ idx = 0
    /\ img = NoneValue
    /\ res = <<>>
    /\ j = 0
    /\ cropCalls = 0
    /\ detections = EmptyDict
    /\ results = <<>>
    /\ outcome = "running"
    /\ returned = <<>>
    /\ error = NoError

\* No invocation of the function has been made in the process.
Invocations == 1 .. MaxCalls

ProcIdle ==
    /\ invPc = [c \in Invocations |-> "idle"]
    /\ invLeft = [c \in Invocations |-> 0]
    /\ invModel = [c \in Invocations |-> 0]
    /\ modelsLoaded = 0

\* The API right after create_app(): no token issued, no task known to the
\* result backend, no request handled yet.
NoHeader == [kind |-> "none", exp |-> 0]
EmptyObject == [k \in {} |-> ""]
NoMeta == [status |-> "", result |-> [type |-> "null", text |-> ""]]
NoRequest == [pc |-> "none", auth |-> NoHeader, task |-> 0, meta |-> NoMeta]
NoResponse ==
    [endpoint |-> "none", auth |-> NoHeader, at |-> 0, seen |-> NoMeta,
     code |-> 0, status |-> "", message |-> "", payload |-> EmptyObject]

ApiIdle ==
    /\ clock = 0
    /\ issued = {}
    /\ tasks = <<>>
    /\ req = NoRequest
    /\ resp = NoResponse

Init == (InitBatch \/ InitItem) /\ InitLocals /\ ProcIdle /\ ApiIdle

(***************************************************************************)
(* Helpers of the loop body.                                               *)
(***************************************************************************)
\* key, img_path = list(img_dict.items())[0]
Key == images[idx].key
ImgPath == images[idx].path

\* for r in res: boxes = r.boxes; if boxes: for i in range(len(class_ids))
\* -- the boxes in the order the two loops visit them.
RECURSIVE Flatten(_)
Flatten(rs) ==
    IF rs = <<>> THEN <<>> ELSE Head(rs).boxes \o Flatten(Tail(rs))

\* A faulty Crop: the box is clamped to the image before cropping.
CropClamped(image, box) ==
    LET w == image.size[1]
        h == image.size[2]
        lo(v, m) == IF v < 0 THEN 0 ELSE IF v > m THEN m ELSE v
    IN  [kind |-> "Image", src |-> image.src,
         box |-> <<lo(box[1], w), lo(box[2], h), lo(box[3], w), lo(box[4], h)>>]

\* A faulty Crop: an empty box gives None instead of an empty image.
CropEmptyAsNone(image, box) ==
    IF box[1] = box[3] \/ box[2] = box[4]
    THEN NoneValue
    ELSE [kind |-> "Image", src |-> image.src, box |-> box]

\* img.crop((x1, y1, x2, y2)): a new image of the box's own size, its pixels
\* taken from the box's rectangle of img (PIL pads what lies outside img).
Crop(image, box) == [kind |-> "Image", src |-> image.src, box |-> box]

\* PIL refuses a box whose right is left of its left or bottom above its top.
CropRaises(box) == box[3] < box[1] \/ box[4] < box[2]

\* A faulty Put: the first detection of a class is kept.
PutFirstWins(d, name, cropped) ==
    [n \in DOMAIN d \cup {name} |-> IF n \in DOMAIN d THEN d[n] ELSE cropped]

\* detections[name] = cropped
Put(d, name, cropped) ==
    [n \in DOMAIN d \cup {name} |-> IF n = name THEN cropped ELSE d[n]]

\* A faulty Get: detections.get(name, "") -- a default other than None.
GetDefaultString(d, name) ==
    IF name \in DOMAIN d THEN d[name] ELSE [kind |-> "str", value |-> ""]

\* detections.get(name)
Get(d, name) == IF name \in DOMAIN d THEN d[name] ELSE NoneValue

\* A faulty StructureResult: both partners keyed by the unsuffixed names.
StructureResultSameKeys(key, d) ==
    IF key = "outlet_copy"
    THEN [type |-> "outlet_copy", data |-> [outlet_id |-> Get(d, "outlet_id")]]
    ELSE [type |-> "partner_copy",
          data |->
            [partner_1 |->
               [name |-> Get(d, "name_1"),
                partner_code |-> Get(d, "partner_code_1"),
                age |-> Get(d, "age_1"),
                date |-> Get(d, "date_1"),
                sign |-> Get(d, "sign_1"),
                cheek_mark |-> Get(d, "cheek_mark_1"),
                phn_number |-> Get(d, "phn_number_1")],
             partner_2 |->
               [name |-> Get(d, "name"),
                partner_code |-> Get(d, "partner_code"),
                age |-> Get(d, "age"),
                date |-> Get(d, "date"),
                sign |-> Get(d, "sign"),
                cheek_mark |-> Get(d, "cheek_mark"),
                phn_number |-> Get(d, "phn_number")]]]

\* A faulty StructureResult: the variant follows what was detected.
StructureResultByDetection(key, d) ==
    IF "outlet_id" \in DOMAIN d
    THEN [type |-> "outlet_copy", data |-> [outlet_id |-> Get(d, "outlet_id")]]
    ELSE [type |-> "partner_copy",
          data |->
            [partner_1 |->
               [name_1 |-> Get(d, "name_1"),
                partner_code_1 |-> Get(d, "partner_code_1"),
                age_1 |-> Get(d, "age_1"),
                date_1 |-> Get(d, "date_1"),
                sign_1 |-> Get(d, "sign_1"),
                cheek_mark_1 |-> Get(d, "cheek_mark_1"),
                phn_number_1 |-> Get(d, "phn_number_1")],
             partner_2 |->
               [name |-> Get(d, "name"),
                partner_code |-> Get(d, "partner_code"),
                age |-> Get(d, "age"),
                date |-> Get(d, "date"),
                sign |-> Get(d, "sign"),
                cheek_mark |-> Get(d, "cheek_mark"),
                phn_number |-> Get(d, "phn_number")]]]

\* A faulty StructureResult: partner_2's name read from the suffixed class.
StructureResultMixedSuffix(key, d) ==
    IF key = "outlet_copy"
    THEN [type |-> "outlet_copy", data |-> [outlet_id |-> Get(d, "outlet_id")]]
    ELSE [type |-> "partner_copy",
          data |->
            [partner_1 |->
               [name_1 |-> Get(d, "name_1"),
                partner_code_1 |-> Get(d, "partner_code_1"),
                age_1 |-> Get(d, "age_1"),
                date_1 |-> Get(d, "date_1"),
                sign_1 |-> Get(d, "sign_1"),
                cheek_mark_1 |-> Get(d, "cheek_mark_1"),
                phn_number_1 |-> Get(d, "phn_number_1")],
             partner_2 |->
               [name |-> Get(d, "name_1"),
                partner_code |-> Get(d, "partner_code"),
                age |-> Get(d, "age"),
                date |-> Get(d, "date"),
                sign |-> Get(d, "sign"),
                cheek_mark |-> Get(d, "cheek_mark"),
                phn_number |-> Get(d, "phn_number")]]]

\* The dict built for a known key.
StructureResult(key, d) ==
    IF key = "outlet_copy"
    THEN [type |-> "outlet_copy", data |-> [outlet_id |-> Get(d, "outlet_id")]]
    ELSE [type |-> "partner_copy",
          data |->
            [partner_1 |->
               [name_1 |-> Get(d, "name_1"),
                partner_code_1 |-> Get(d, "partner_code_1"),
                age_1 |-> Get(d, "age_1"),
                date_1 |-> Get(d, "date_1"),
                sign_1 |-> Get(d, "sign_1"),
                cheek_mark_1 |-> Get(d, "cheek_mark_1"),
                phn_number_1 |-> Get(d, "phn_number_1")],
             partner_2 |->
               [name |-> Get(d, "name"),
                partner_code |-> Get(d, "partner_code"),
                age |-> Get(d, "age"),
                date |-> Get(d, "date"),
                sign |-> Get(d, "sign"),
                cheek_mark |-> Get(d, "cheek_mark"),
                phn_number |-> Get(d, "phn_number")]]]

\* A faulty KnownKey: the else branch taken as the partner branch.
KnownKeyAny(key) == TRUE

\* if key == "outlet_copy": ... elif key == "partner_copy": ... else: raise
KnownKey(key) == key = "outlet_copy" \/ key = "partner_copy"

\* A faulty AppendResult: results.insert(0, result).
PrependResult(rs, r) == <<r>> \o rs

\* results.append(result)
AppendResult(rs, r) == Append(rs, r)

\* A faulty Propagate: the exception is caught in the loop body, an error
\* record takes the item's slot and the loop goes on.
CatchAndRecord(kind) ==
    /\ pc' = "loop"
    /\ results' = Append(results, [type |-> "error", data |-> [error |-> kind]])
    /\ UNCHANGED <<idx, img, res, j, cropCalls, detections, outcome, returned,
                   error>>

\* An exception raised in the function: nothing catches it, so it leaves the
\* call; the locals (results among them) are dropped with the frame.
Propagate(kind) ==
    /\ pc' = "raised"
    /\ outcome' = "raised"
    /\ error' = [kind |-> kind, item |-> idx]
    /\ UNCHANGED <<idx, img, res, j, cropCalls, detections, results, returned>>

(***************************************************************************)
(* The statements of extract_objects_from_images.                          *)
(***************************************************************************)
\* A faulty LoadModel: a model that failed to load is noticed only when it
\* is first used, so the loop is entered all the same.
LoadModelDeferred ==
    /\ pc = "load_model"
    /\ loads' = IF modelFile THEN loads + 1 ELSE loads
    /\ pc' = "loop"
    /\ UNCHANGED <<idx, img, res, j, cropCalls, detections, results, outcome,
                   returned, error>>
    /\ UNCHANGED <<images, detector, modelFile>>
    /\ UNCHANGED <<procVars, apiVars>>

\* model = YOLO(...); results = []
LoadModel ==
    /\ pc = "load_model"
    /\ IF modelFile
       THEN /\ loads' = loads + 1
            /\ pc' = "loop"
            /\ UNCHANGED <<idx, img, res, j, cropCalls, detections, results,
                           outcome, returned, error>>
       ELSE /\ Propagate("ModelLoadError")
            /\ UNCHANGED loads
    /\ UNCHANGED <<images, detector, modelFile>>
    /\ UNCHANGED <<procVars, apiVars>>

\* for img_dict in images: key, img_path = ...
NextItem ==
    /\ pc = "loop"
    /\ idx < Len(images)
    /\ idx' = idx + 1
    /\ pc' = "open"
    /\ UNCHANGED <<images, detector, modelFile, loads, img, res, j, cropCalls,
                   detections, results, outcome, returned, error>>
    /\ UNCHANGED <<procVars, apiVars>>

\* img = Image.open(img_path)
OpenImage ==
    /\ pc = "open"
    /\ IF ImgPath \in ExistingFiles
       THEN /\ img' = [kind |-> "Image", src |-> ImgPath,
                       size |-> ImageSize(ImgPath)]
            /\ pc' = "predict"
            /\ UNCHANGED <<idx, res, j, cropCalls, detections, results,
                           outcome, returned, error>>
       ELSE Propagate("FileNotFoundError")
    /\ UNCHANGED <<images, detector, modelFile, loads>>
    /\ UNCHANGED <<procVars, apiVars>>

\* A faulty Predict: the map of the item before is kept and added to.
PredictKeepsMap ==
    /\ pc = "predict"
    /\ IF detector[img.src].kind = "ok"
       THEN /\ res' = detector[img.src].res
            /\ j' = 0
            /\ cropCalls' = 0
            /\ pc' = "reduce"
            /\ UNCHANGED <<idx, img, detections, results, outcome, returned,
                           error>>
       ELSE Propagate("DetectionError")
    /\ UNCHANGED <<images, detector, modelFile, loads>>
    /\ UNCHANGED <<procVars, apiVars>>

\* res = model(img, conf=0.5, iou=0.45); detections = {}
Predict ==
    /\ pc = "predict"
    /\ IF detector[img.src].kind = "ok"
       THEN /\ res' = detector[img.src].res
            /\ detections' = EmptyDict
            /\ j' = 0
            /\ cropCalls' = 0
            /\ pc' = "reduce"
            /\ UNCHANGED <<idx, img, results, outcome, returned, error>>
       ELSE Propagate("DetectionError")
    /\ UNCHANGED <<images, detector, modelFile, loads>>
    /\ UNCHANGED <<procVars, apiVars>>

\* A faulty ReduceStep: the box is stored and its cropping left for later.
ReduceStepCropLater ==
    /\ pc = "reduce"
    /\ j < Len(Flatten(res))
    /\ LET d == Flatten(res)[j + 1]
           name == ModelNames[d.cls + 1]
           box == IntBox(d.xyxy)
       IN  /\ detections' = Put(detections, name, Crop(img, box))
           /\ j' = j + 1
           /\ UNCHANGED <<pc, idx, img, res, cropCalls, results, outcome,
                          returned, error>>
    /\ UNCHANGED <<images, detector, modelFile, loads>>
    /\ UNCHANGED <<procVars, apiVars>>

\* One pass of the inner loop: name the class, crop the box, store the crop.
ReduceStep ==
    /\ pc = "reduce"
    /\ j < Len(Flatten(res))
    /\ LET d == Flatten(res)[j + 1]
           name == ModelNames[d.cls + 1]
           box == IntBox(d.xyxy)
       IN  IF CropRaises(box)
           THEN Propagate("ValueError")
           ELSE /\ detections' = Put(detections, name, Crop(img, box))
                /\ cropCalls' = cropCalls + 1
                /\ j' = j + 1
                /\ UNCHANGED <<pc, idx, img, res, results, outcome, returned,
                               error>>
    /\ UNCHANGED <<images, detector, modelFile, loads>>
    /\ UNCHANGED <<procVars, apiVars>>

\* The if/elif/else on key, and results.append(result).
Structure ==
    /\ pc = "reduce"
    /\ j = Len(Flatten(res))
    /\ IF KnownKey(Key)
       THEN /\ results' = AppendResult(results, StructureResult(Key, detections))
            /\ pc' = "loop"
            /\ UNCHANGED <<idx, img, res, j, cropCalls, detections, outcome,
                           returned, error>>
       ELSE Propagate("ValueError")
    /\ UNCHANGED <<images, detector, modelFile, loads>>
    /\ UNCHANGED <<procVars, apiVars>>

\* return results
Return ==
    /\ pc = "loop"
    /\ idx = Len(images)
    /\ pc' = "done"
    /\ outcome' = "returned"
    /\ returned' = results
    /\ UNCHANGED <<images, detector, modelFile, loads, idx, img, res, j,
                   cropCalls, detections, results, error>>
    /\ UNCHANGED <<procVars, apiVars>>

Next ==
    \/ LoadModel
    \/ NextItem
    \/ OpenImage
    \/ Predict
    \/ ReduceStep
    \/ Structure
    \/ Return

Spec == Init /\ [][Next]_vars

(***************************************************************************)
(* Several invocations in one process.  Each invocation runs the same      *)
(* function, here with one step per statement group: the model load (line  *)
(* 17), one pass of the loop body (lines 20-75), the return (line 76).     *)
(* Invocations may overlap (threads or workers of one process).            *)
(***************************************************************************)
\* The function as called with no item, its model loaded: the single call
\* of the variables above at rest.
CallIdle ==
    /\ images = <<>>
    /\ detector = [p \in ExistingFiles |-> DetectorReturns(<<>>)]
    /\ modelFile = TRUE
    /\ pc = "done"
    /\ loads = 0
    /\ idx = 0
    /\ img = NoneValue
    /\ res = <<>>
    /\ j = 0
    /\ cropCalls = 0
    /\ detections = EmptyDict
    /\ results = <<>>
    /\ outcome = "returned"
    /\ returned = <<>>
    /\ error = NoError

\* extract_objects_from_images(images) is called with n items.
Invoke(c) ==
    /\ invPc[c] = "idle"
    /\ \E n \in 0 .. MaxItems : invLeft' = [invLeft EXCEPT ![c] = n]
    /\ invPc' = [invPc EXCEPT ![c] = "load_model"]
    /\ UNCHANGED <<invModel, modelsLoaded>>
    /\ UNCHANGED <<callVars, apiVars>>

\* A faulty InvLoadModel: a model loaded earlier in the process is reused.
InvLoadModelShared(c) ==
    /\ invPc[c] = "load_model"
    /\ IF modelsLoaded > 0
       THEN /\ invModel' = [invModel EXCEPT ![c] = 1]
            /\ UNCHANGED modelsLoaded
       ELSE /\ modelsLoaded' = modelsLoaded + 1
            /\ invModel' = [invModel EXCEPT ![c] = modelsLoaded + 1]
    /\ invPc' = [invPc EXCEPT ![c] = "loop"]
    /\ UNCHANGED invLeft
    /\ UNCHANGED <<callVars, apiVars>>

\* model = YOLO(...): a new model object, bound to the invocation's local
\* name, or an exception when the weights cannot be loaded.
InvLoadModel(c) ==
    /\ invPc[c] = "load_model"
    /\ \E ok \in BOOLEAN :
          IF ok
          THEN /\ modelsLoaded' = modelsLoaded + 1
               /\ invModel' = [invModel EXCEPT ![c] = modelsLoaded + 1]
               /\ invPc' = [invPc EXCEPT ![c] = "loop"]
          ELSE /\ invPc' = [invPc EXCEPT ![c] = "raised"]
               /\ UNCHANGED <<invModel, modelsLoaded>>
    /\ UNCHANGED invLeft
    /\ UNCHANGED <<callVars, apiVars>>

\* One pass of the loop body, run with the invocation's own model; any
\* exception in it leaves the call.
InvItem(c) ==
    /\ invPc[c] = "loop"
    /\ invLeft[c] > 0
    /\ \E ok \in BOOLEAN :
          IF ok
          THEN /\ invLeft' = [invLeft EXCEPT ![c] = invLeft[c] - 1]
               /\ UNCHANGED invPc
          ELSE /\ invPc' = [invPc EXCEPT ![c] = "raised"]
               /\ UNCHANGED invLeft
    /\ UNCHANGED <<invModel, modelsLoaded>>
    /\ UNCHANGED <<callVars, apiVars>>

\* return results
InvReturn(c) ==
    /\ invPc[c] = "loop"
    /\ invLeft[c] = 0
    /\ invPc' = [invPc EXCEPT ![c] = "done"]
    /\ UNCHANGED <<invLeft, invModel, modelsLoaded>>
    /\ UNCHANGED <<callVars, apiVars>>

InitProcess == CallIdle /\ ProcIdle /\ ApiIdle

NextProcess ==
    \/ \E c \in Invocations : Invoke(c)
    \/ \E c \in Invocations : InvLoadModel(c)
    \/ \E c \in Invocations : InvItem(c)
    \/ \E c \in Invocations : InvReturn(c)

SpecProcess == InitProcess /\ [][NextProcess]_vars

(***************************************************************************)
(* The HTTP API (src/app/api) in a deployment whose environment sets the   *)
(* JWT secret and lifetime.  A request is handled in one step, except      *)
(* get_task_status, whose two reads of the result backend are two steps.   *)
(* Time is counted in token lifetimes' units by clock.                     *)
(***************************************************************************)
\* JSON values as they appear in response bodies and in the result backend.
JsonNumber(n) == [type |-> "number", text |-> ToString(n)]
JsonString(t) == [type |-> "string", text |-> t]
JsonNull == [type |-> "null", text |-> ""]
PyException(t) == [type |-> "exception", text |-> t]

\* str(value)
Str(v) == IF v.type = "null" THEN JsonString("None") ELSE JsonString(v.text)

\* A body key that the response does not carry.
Absent == "(absent)"

\* apiResponse(status, message, payload, status_code)
apiResponse(status, message, payload, status_code) ==
    [status |-> status, message |-> message, payload |-> payload,
     code |-> status_code]

\* The response to one request, kept with what the request was: its
\* endpoint, its Authorization header, its time and, for a task query, what
\* the handler last read from the backend.
Exchange(endpoint, auth, seen, r) ==
    [endpoint |-> endpoint, auth |-> auth, at |-> clock, seen |-> seen,
     code |-> r.code, status |-> r.status, message |-> r.message,
     payload |-> r.payload]

\* Authorization headers a client can send: none, "Bearer a b", a Bearer
\* string that is no JWT, a JWT signed with another key, a JWT with
\* alg "none", and the tokens the API has issued.
Bearer(token) == [kind |-> "issued", exp |-> token]
AuthHeaders ==
    {NoHeader} \cup
    {[kind |-> k, exp |-> 0] : k \in {"bad_header", "malformed", "foreign", "unsigned"}} \cup
    {Bearer(t) : t \in issued}

NoException == [class |-> "none", text |-> ""]
Raise(class, text) == [class |-> class, text |-> text]

\* A faulty Expired: the exp claim is not looked at.
ExpiredNever(exp, now) == FALSE

\* jwt.decode's check of the exp claim put there by expires_delta.
Expired(exp, now) == exp <= now

\* jwt.decode of the Bearer string with the application's key.
DecodeToken(auth, now) ==
    CASE auth.kind = "malformed" -> Raise("DecodeError", "Not enough segments")
      [] auth.kind = "foreign" ->
            Raise("InvalidSignatureError", "Signature verification failed")
      [] auth.kind = "unsigned" ->
            Raise("InvalidAlgorithmError", "The specified alg value is not allowed")
      [] auth.kind = "issued" ->
            IF Expired(auth.exp, now)
            THEN Raise("ExpiredSignatureError", "Signature has expired")
            ELSE NoException

\* @jwt_required(): the exception it raises, or none.
JwtRequired(auth, now) ==
    CASE auth.kind = "none" ->
            Raise("NoAuthorizationError", "Missing Authorization Header")
      [] auth.kind = "bad_header" ->
            Raise("InvalidHeaderError",
                  "Bad Authorization header. Expected 'Authorization: Bearer <JWT>'")
      [] OTHER -> DecodeToken(auth, now)

\* The exception classes imported by auth.py and their base classes.
ExceptionClasses ==
    {"DecodeError", "InvalidSignatureError", "ExpiredSignatureError",
     "InvalidAlgorithmError", "InvalidTokenError", "InvalidAudienceError",
     "InvalidIssuerError", "MissingRequiredClaimError", "PyJWTError",
     "InvalidHeaderError", "NoAuthorizationError", "JWTExtendedException",
     "Exception"}

Parent(class) ==
    CASE class = "InvalidSignatureError" -> "DecodeError"
      [] class \in {"DecodeError", "ExpiredSignatureError", "InvalidAlgorithmError",
                    "InvalidAudienceError", "InvalidIssuerError",
                    "MissingRequiredClaimError"} -> "InvalidTokenError"
      [] class = "InvalidTokenError" -> "PyJWTError"
      [] class \in {"InvalidHeaderError", "NoAuthorizationError"} ->
            "JWTExtendedException"
      [] OTHER -> "Exception"

\* A faulty Registered: only the PyJWT classes are given to handle_jwt_error.
RegisteredPyJwtOnly ==
    {"DecodeError", "ExpiredSignatureError", "InvalidTokenError",
     "InvalidAudienceError", "InvalidIssuerError", "MissingRequiredClaimError"}

\* The classes handle_jwt_error is registered for (@app.errorhandler lines).
Registered ==
    {"DecodeError", "ExpiredSignatureError", "InvalidTokenError",
     "InvalidAudienceError", "InvalidIssuerError", "MissingRequiredClaimError",
     "InvalidHeaderError", "NoAuthorizationError"}

\* Flask looks a handler up along the exception class's bases.
RECURSIVE HandledByApp(_)
HandledByApp(class) ==
    IF class \in Registered THEN TRUE
    ELSE IF class = "Exception" THEN FALSE
    ELSE HandledByApp(Parent(class))

\* handle_jwt_error(error_string)
handle_jwt_error(exc) ==
    apiResponse("error", "Authentication Failed",
                [error_msg |-> JsonString(exc.text)], 401)

\* The answer JWTManager(app) gives for a class the application registers
\* no handler for: a body with the one key "msg".
ExtensionDefault(exc) ==
    apiResponse(Absent, Absent, [msg |-> JsonString(exc.text)],
                IF exc.class \in {"NoAuthorizationError", "InvalidHeaderError",
                                  "ExpiredSignatureError"}
                THEN 401 ELSE 422)

\* The response to a request whose @jwt_required() raised exc.
HandleError(exc) ==
    IF HandledByApp(exc.class) THEN handle_jwt_error(exc) ELSE ExtensionDefault(exc)

\* The environment gives JWT_SECRET_KEY, so create_access_token does not
\* raise.
SecretConfigured == TRUE

\* create_access_token(identity=..., expires_delta=...)
get_auth_token(now) == now + Lifetime

\* POST /api/get-token
GenerateAuthToken ==
    /\ resp' = Exchange("get-token", NoHeader, NoMeta,
                 IF SecretConfigured
                 THEN apiResponse("success", "token created",
                        [token |-> JsonString(ToString(get_auth_token(clock)))], 201)
                 ELSE apiResponse("failed", "token not created",
                        [error |-> JsonString("JWT_SECRET_KEY must be set"),
                         traceback |-> JsonString("Traceback")], 200))
    /\ issued' = IF SecretConfigured THEN issued \cup {get_auth_token(clock)}
                 ELSE issued
    /\ UNCHANGED <<clock, tasks, req>>
    /\ UNCHANGED <<callVars, procVars>>

\* GET /api/health, under its two @jwt_required() decorators.
HealthCheck ==
    /\ \E auth \in AuthHeaders :
          LET outer == JwtRequired(auth, clock)
              inner == IF outer = NoException THEN JwtRequired(auth, clock)
                       ELSE outer
          IN  resp' = Exchange("health", auth, NoMeta,
                        IF inner = NoException
                        THEN apiResponse("success", "ai api running", EmptyObject, 200)
                        ELSE HandleError(inner))
    /\ UNCHANGED <<clock, issued, tasks, req>>
    /\ UNCHANGED <<callVars, procVars>>

\* Time passes.
Tick ==
    /\ clock < MaxClock
    /\ clock' = clock + 1
    /\ UNCHANGED <<issued, tasks, req, resp>>
    /\ UNCHANGED <<callVars, procVars>>

\* The task queue: celery_check queues additions, a worker runs them, and
\* the result backend keeps each task's state and result.
TaskIds == 1 .. MaxTasks
READY_STATES == {"SUCCESS", "FAILURE", "REVOKED"}

\* Values a client puts in the request body as x (y likewise).
Number(n) == [type |-> "number", n |-> n]
Text == [type |-> "string", n |-> 0]
ArgValues == {Number(1), Text}

\* addition(x, y): return x + y
addition(x, y) ==
    IF x.type = "number" /\ y.type = "number"
    THEN [status |-> "SUCCESS", result |-> JsonNumber(x.n + y.n)]
    ELSE IF x.type = "string" /\ y.type = "string"
    THEN [status |-> "SUCCESS", result |-> JsonString("aa")]
    ELSE [status |-> "FAILURE",
          result |-> PyException("unsupported operand type(s) for +")]

\* What the backend holds for a task id; an id it does not know is PENDING.
BackendMeta(id) ==
    IF id \in 1 .. Len(tasks)
    THEN [status |-> tasks[id].status, result |-> tasks[id].result]
    ELSE [status |-> "PENDING", result |-> JsonNull]

\* POST /api/celery/worker
CeleryCheck ==
    /\ Len(tasks) < MaxTasks
    /\ \E auth \in AuthHeaders, x \in ArgValues, y \in {Number(2)},
          brokerUp \in BOOLEAN :
          LET exc == JwtRequired(auth, clock) IN
          IF exc # NoException
          THEN /\ resp' = Exchange("worker", auth, NoMeta, HandleError(exc))
               /\ UNCHANGED tasks
          ELSE IF ~brokerUp
          THEN /\ resp' = Exchange("worker", auth, NoMeta,
                             apiResponse("error", "Failed to process celery_check",
                                [error_msg |-> JsonString("broker unreachable"),
                                 traceback |-> JsonString("Traceback")], 500))
               /\ UNCHANGED tasks
          ELSE /\ tasks' = Append(tasks, [status |-> "PENDING", x |-> x, y |-> y,
                                           result |-> JsonNull])
               /\ resp' = Exchange("worker", auth, NoMeta,
                             apiResponse("success", "Task queued",
                                [task_id |-> JsonString(ToString(Len(tasks) + 1))],
                                200))
    /\ UNCHANGED <<clock, issued, req>>
    /\ UNCHANGED <<callVars, procVars>>

\* A worker runs a queued task to its end and stores the outcome.
Worker ==
    /\ \E t \in 1 .. Len(tasks) :
          /\ tasks[t].status = "PENDING"
          /\ LET out == addition(tasks[t].x, tasks[t].y)
             IN  tasks' = [tasks EXCEPT ![t].status = out.status,
                                        ![t].result = out.result]
    /\ UNCHANGED <<clock, issued, req, resp>>
    /\ UNCHANGED <<callVars, procVars>>

\* The response of a task query whose backend read raised.
QueryFailed ==
    apiResponse("error", "Failed to get task status",
                [error_msg |-> JsonString("backend unreachable")], 500)

\* GET /api/celery/task/<task_id>, up to task_state = task_result.state:
\* the first read of the backend.
GetTaskStatusReadState ==
    /\ req.pc = "none"
    /\ \E auth \in AuthHeaders, id \in TaskIds, backendUp \in BOOLEAN :
          LET exc == JwtRequired(auth, clock) IN
          IF exc # NoException
          THEN /\ resp' = Exchange("task", auth, NoMeta, HandleError(exc))
               /\ UNCHANGED req
          ELSE IF ~backendUp
          THEN /\ resp' = Exchange("task", auth, NoMeta, QueryFailed)
               /\ UNCHANGED req
          ELSE /\ req' = [pc |-> "state_read", auth |-> auth, task |-> id,
                          meta |-> BackendMeta(id)]
               /\ UNCHANGED resp
    /\ UNCHANGED <<clock, issued, tasks>>
    /\ UNCHANGED <<callVars, procVars>>

\* The payload built from the state read first and from what ready() and
\* result then gave.
TaskPayload(id, first, last) ==
    [task_id |-> JsonString(ToString(id)), state |-> JsonString(first.status)] @@
    IF last.status \in READY_STATES
    THEN "result" :> (IF first.status = "SUCCESS" THEN last.result
                      ELSE Str(last.result))
    ELSE "progress" :> JsonString("Task is still running or pending")

\* The rest of get_task_status, from task_result.ready(): a task read as
\* ready keeps its cached state and result; one read as not ready is read
\* from the backend again.
GetTaskStatusRespond ==
    /\ req.pc = "state_read"
    /\ \E backendUp \in BOOLEAN :
          LET cached == req.meta.status \in READY_STATES
              last == IF cached THEN req.meta ELSE BackendMeta(req.task)
              payload == TaskPayload(req.task, req.meta, last)
              task_status ==
                  IF "result" \in DOMAIN payload
                  THEN "Task is in state: " \o req.meta.status \o
                       " - Result: " \o payload.result.text
                  ELSE "Task is in state: " \o req.meta.status
          IN  resp' = IF ~cached /\ ~backendUp
                      THEN Exchange("task", req.auth, NoMeta, QueryFailed)
                      ELSE Exchange("task", req.auth, last,
                             apiResponse("success", task_status, payload, 200))
    /\ req' = NoRequest
    /\ UNCHANGED <<clock, issued, tasks>>
    /\ UNCHANGED <<callVars, procVars>>

InitApi == CallIdle /\ ProcIdle /\ ApiIdle

\* Authentication over time: tokens are issued, presented and expire.
NextAuth ==
    \/ GenerateAuthToken
    \/ HealthCheck
    \/ Tick

SpecAuth == InitApi /\ [][NextAuth]_vars

\* The task endpoints with a worker, within the lifetime of the tokens.
NextTasks ==
    \/ GenerateAuthToken
    \/ CeleryCheck
    \/ Worker
    \/ GetTaskStatusReadState
    \/ GetTaskStatusRespond

SpecTasks == InitApi /\ [][NextTasks]_vars

(***************************************************************************)
(* What the inputs determine, stated without the loop: used by the         *)
(* properties below to say what a record should be.                        *)
(***************************************************************************)
KnownKeys == {"outlet_copy", "partner_copy"}

Partner1Names ==
    {"name_1", "partner_code_1", "age_1", "date_1", "sign_1", "cheek_mark_1",
     "phn_number_1"}

Partner2Names ==
    {"name", "partner_code", "age", "date", "sign", "cheek_mark", "phn_number"}

LoadFails(i) == images[i].path \notin ExistingFiles

DetectFails(i) == ~LoadFails(i) /\ detector[images[i].path].kind = "raise"

UnknownKey(i) == images[i].key \notin KnownKeys

ItemFails(i) == LoadFails(i) \/ DetectFails(i) \/ UnknownKey(i)

\* The boxes the detector reports for item i, in its own order.
BoxesOf(i) == detector[images[i].path].res[1].boxes

\* Index of the last of the first n boxes whose class is name, 0 if none.
LastOf(boxes, n, name) ==
    LET hits == {k \in 1 .. n : ModelNames[boxes[k].cls + 1] = name}
    IN  IF hits = {} THEN 0 ELSE CHOOSE k \in hits : \A m \in hits : m <= k

\* The value a field reading class name should hold for item i.
ExpectedCrop(i, name) ==
    LET boxes == BoxesOf(i)
        k == LastOf(boxes, Len(boxes), name)
    IN  IF k = 0
        THEN NoneValue
        ELSE [kind |-> "Image", src |-> images[i].path,
              box |-> IntBox(boxes[k].xyxy)]

ExpectedMap(i) ==
    LET boxes == BoxesOf(i)
        seen == {ModelNames[boxes[k].cls + 1] : k \in 1 .. Len(boxes)}
    IN  [n \in seen |-> ExpectedCrop(i, n)]

\* The record item i yields when nothing fails for it.
Produced(i) == StructureResult(images[i].key, ExpectedMap(i))

Finished == pc \in {"done", "raised"}

(***************************************************************************)
(* C1                                                                      *)
(***************************************************************************)
\* C1 as stated: whenever the call ends (the model having loaded), it has
\* returned exactly N results, whether or not individual items failed.
C1_AlwaysNResults ==
    (modelFile /\ Finished) =>
        (outcome = "returned" /\ Len(returned) = Len(images))

\* C1 amended: a call that returns has met no failing item and returns
\* exactly N results, the one at index i being the record produced for item
\* i; a call that met a failing item returns nothing, the exception of the
\* first failing item having left the call.
C1_NResultsOrRaise ==
    /\ outcome = "returned" =>
          /\ \A i \in 1 .. Len(images) : ~ItemFails(i)
          /\ Len(returned) = Len(images)
          /\ \A i \in 1 .. Len(images) : returned[i] = Produced(i)
    /\ (modelFile /\ outcome = "raised") =>
          /\ returned = <<>>
          /\ error.item \in 1 .. Len(images)
          /\ ItemFails(error.item)
          /\ \A i \in 1 .. (error.item - 1) : ~ItemFails(i)
    /\ (pc = "done" /\ modelFile) => outcome = "returned"

\* A batch of three items of both kinds over two different pages returned.
C1_Witness ==
    /\ outcome = "returned"
    /\ Len(images) = 3
    /\ Len(returned) = 3
    /\ images[1].key = "partner_copy"
    /\ images[2].key = "outlet_copy"
    /\ images[1].path # images[3].path
    /\ returned[1] # returned[3]

(***************************************************************************)
(* C2                                                                      *)
(***************************************************************************)
\* C2 as stated: when item i fails to load or fails in detection, the call
\* returns normally, slot i holds an error record and the other items hold
\* their successful records.
C2_ErrorRecordAndContinue ==
    \A i \in 1 .. Len(images) :
        (modelFile /\ Finished /\ (LoadFails(i) \/ DetectFails(i))) =>
            /\ outcome = "returned"
            /\ Len(returned) = Len(images)
            /\ returned[i].type = "error"
            /\ \A k \in 1 .. Len(images) :
                  ~ItemFails(k) => returned[k] = Produced(k)

\* C2 amended: when item i fails to load its image or fails during
\* detection, no error record is made: the exception leaves the call at
\* item i, the items after it are never started, the records built for the
\* items before it stay in the dropped local list and nothing is returned.
C2_FailureAbortsBatch ==
    \A i \in 1 .. Len(images) :
        (LoadFails(i) \/ DetectFails(i)) =>
            /\ idx <= i
            /\ outcome # "returned"
            /\ returned = <<>>
            /\ \A k \in 1 .. Len(results) : results[k].type \in KnownKeys
            /\ (idx = i /\ pc \notin {"open", "predict"}) =>
                  /\ pc = "raised"
                  /\ outcome = "raised"
                  /\ error.item = i
                  /\ error.kind =
                       (IF LoadFails(i) THEN "FileNotFoundError"
                                        ELSE "DetectionError")
                  /\ Len(results) = i - 1
                  /\ ~ENABLED Next

\* The second of three items names a missing file: the call raised there,
\* after the first item's record was built.
C2_Witness ==
    /\ Len(images) = 3
    /\ ~ItemFails(1)
    /\ LoadFails(2)
    /\ ~ItemFails(3)
    /\ pc = "raised"
    /\ error.kind = "FileNotFoundError"
    /\ error.item = 2
    /\ Len(results) = 1

(***************************************************************************)
(* C3                                                                      *)
(***************************************************************************)
\* C3 as stated: an item with an unknown type tag gets an error-marker
\* result in its slot and the call still returns one result per item.
C3_UnknownKeyIsolated ==
    \A i \in 1 .. Len(images) :
        (modelFile /\ Finished /\ UnknownKey(i)) =>
            /\ outcome = "returned"
            /\ Len(returned) = Len(images)
            /\ returned[i].type \notin KnownKeys

\* C3 amended: an item whose type tag is neither outlet_copy nor
\* partner_copy makes the whole call fail: once its image is opened and its
\* boxes are cropped, ValueError is raised and leaves the call; no result is
\* made for the item and no result of any item is returned.
C3_UnknownKeyAbortsBatch ==
    \A i \in 1 .. Len(images) :
        UnknownKey(i) =>
            /\ idx <= i
            /\ outcome # "returned"
            /\ returned = <<>>
            /\ Len(results) < i
            /\ (idx = i /\ pc \notin {"open", "predict", "reduce"}) =>
                  /\ pc = "raised"
                  /\ error.item = i
                  /\ ~ENABLED Next
                  /\ (~LoadFails(i) /\ ~DetectFails(i)) =>
                        /\ error.kind = "ValueError"
                        /\ j = Len(BoxesOf(i))
                        /\ cropCalls = Len(BoxesOf(i))

\* An unknown tag in the middle of a batch, on a page with boxes: the call
\* raised ValueError after a record was built for the item before it.
C3_Witness ==
    /\ pc = "raised"
    /\ error.kind = "ValueError"
    /\ idx > 1
    /\ idx < Len(images)
    /\ images[idx].key = "other_copy"
    /\ Len(results) = idx - 1
    /\ cropCalls > 0

(***************************************************************************)
(* C4                                                                      *)
(***************************************************************************)
ClassNames == {ModelNames[c + 1] : c \in ClassIds}

\* C4: all through the reduction of an image, the crop kept for a class is
\* the crop of the last box of that class among the boxes visited so far, in
\* the detector's own order; a class not yet seen has no entry.
C4_LastDetectionWins ==
    pc = "reduce" =>
        LET boxes == Flatten(res)
        IN  \A name \in ClassNames :
                LET k == LastOf(boxes, j, name)
                IN  IF k = 0
                    THEN name \notin DOMAIN detections
                    ELSE /\ name \in DOMAIN detections
                         /\ detections[name] =
                              [kind |-> "Image", src |-> img.src,
                               box |-> IntBox(boxes[k].xyxy)]

\* Two boxes of one class with different rectangles were reduced: the kept
\* crop is the second one's.
C4_Witness ==
    /\ pc = "reduce"
    /\ j = 2
    /\ Len(Flatten(res)) = 2
    /\ Flatten(res)[1].cls = Flatten(res)[2].cls
    /\ IntBox(Flatten(res)[1].xyxy) # IntBox(Flatten(res)[2].xyxy)
    /\ detections[ModelNames[Flatten(res)[2].cls + 1]].box
         = IntBox(Flatten(res)[2].xyxy)

(***************************************************************************)
(* C5                                                                      *)
(***************************************************************************)
\* C5 as stated: outlet_copy gives data with exactly outlet_id; partner_copy
\* gives data with exactly partner_1 and partner_2, each holding exactly the
\* seven unsuffixed field names.
C5_SevenNamedFieldsEach ==
    \A k \in 1 .. Len(results) :
        IF images[k].key = "outlet_copy"
        THEN DOMAIN results[k].data = {"outlet_id"}
        ELSE /\ DOMAIN results[k].data = {"partner_1", "partner_2"}
             /\ DOMAIN results[k].data.partner_1 = Partner2Names
             /\ DOMAIN results[k].data.partner_2 = Partner2Names

\* C5 amended: outlet_copy gives data with exactly outlet_id; partner_copy
\* gives data with exactly partner_1 and partner_2, where partner_1 holds
\* exactly the seven suffixed keys (name_1 ... phn_number_1) and partner_2
\* exactly the seven unsuffixed keys (name ... phn_number).
C5_SchemaKeys ==
    \A k \in 1 .. Len(results) :
        /\ DOMAIN results[k] = {"type", "data"}
        /\ IF images[k].key = "outlet_copy"
           THEN DOMAIN results[k].data = {"outlet_id"}
           ELSE /\ DOMAIN results[k].data = {"partner_1", "partner_2"}
                /\ DOMAIN results[k].data.partner_1 = Partner1Names
                /\ DOMAIN results[k].data.partner_2 = Partner2Names

\* A partner record built from a page with boxes, then an outlet record.
C5_Witness ==
    /\ Len(results) >= 2
    /\ images[1].key = "partner_copy"
    /\ images[2].key = "outlet_copy"
    /\ BoxesOf(1) # <<>>
    /\ results[1].data.partner_1.name_1 # NoneValue

(***************************************************************************)
(* C6                                                                      *)
(***************************************************************************)
Undetected(i, name) == LastOf(BoxesOf(i), Len(BoxesOf(i)), name) = 0

\* C6: every field of a record whose class was not detected in the item's
\* image is present and holds None.
C6_AbsentFieldsAreNone ==
    \A k \in 1 .. Len(results) :
        IF images[k].key = "outlet_copy"
        THEN Undetected(k, "outlet_id") =>
                /\ "outlet_id" \in DOMAIN results[k].data
                /\ results[k].data.outlet_id = NoneValue
        ELSE /\ \A n \in Partner1Names :
                    Undetected(k, n) =>
                        /\ n \in DOMAIN results[k].data.partner_1
                        /\ results[k].data.partner_1[n] = NoneValue
             /\ \A n \in Partner2Names :
                    Undetected(k, n) =>
                        /\ n \in DOMAIN results[k].data.partner_2
                        /\ results[k].data.partner_2[n] = NoneValue

\* A partner record for a page without any box (all fourteen fields None),
\* an outlet record for a page without an outlet_id box, and a partner
\* record with one field found and another one absent.
C6_Witness ==
    \E a, b, c \in 1 .. Len(results) :
        /\ images[a].key = "partner_copy"
        /\ BoxesOf(a) = <<>>
        /\ \A n \in Partner1Names : results[a].data.partner_1[n] = NoneValue
        /\ \A n \in Partner2Names : results[a].data.partner_2[n] = NoneValue
        /\ images[b].key = "outlet_copy"
        /\ Undetected(b, "outlet_id")
        /\ results[b].data.outlet_id = NoneValue
        /\ images[c].key = "partner_copy"
        /\ results[c].data.partner_1.name_1 # NoneValue
        /\ results[c].data.partner_1.age_1 = NoneValue

(***************************************************************************)
(* C7                                                                      *)
(***************************************************************************)
\* C7: the variant of a record is the item's type tag whatever was
\* detected; an outlet record has no partner key and a partner record has
\* no outlet_id key at any level.
C7_VariantFollowsKey ==
    \A k \in 1 .. Len(results) :
        /\ results[k].type = images[k].key
        /\ results[k].type = "outlet_copy" =>
              DOMAIN results[k].data
                  \cap ({"partner_1", "partner_2"} \cup Partner1Names
                            \cup Partner2Names) = {}
        /\ results[k].type = "partner_copy" =>
              "outlet_id" \notin
                  (DOMAIN results[k].data
                      \cup DOMAIN results[k].data.partner_1
                      \cup DOMAIN results[k].data.partner_2)

\* An outlet record for a page where a partner class was detected, and a
\* partner record for a page where outlet_id was detected.
C7_Witness ==
    \E a, b \in 1 .. Len(results) :
        /\ results[a].type = "outlet_copy"
        /\ \E n \in Partner1Names \cup Partner2Names : ~Undetected(a, n)
        /\ results[b].type = "partner_copy"
        /\ ~Undetected(b, "outlet_id")

(***************************************************************************)
(* C8                                                                      *)
(***************************************************************************)
\* C8: in a partner record every partner_1 field holds what the class of its
\* own suffixed name gave (the last crop of that class, or None) and every
\* partner_2 field what the class of its own unsuffixed name gave.
C8_PartnerFieldSources ==
    \A k \in 1 .. Len(results) :
        images[k].key = "partner_copy" =>
            /\ \A n \in Partner1Names :
                  results[k].data.partner_1[n] = ExpectedCrop(k, n)
            /\ \A n \in Partner2Names :
                  results[k].data.partner_2[n] = ExpectedCrop(k, n)

\* A partner record for a page with name_1 detected and name not: the crop
\* is in partner_1 and partner_2's name is None.
C8_Witness ==
    \E k \in 1 .. Len(results) :
        /\ images[k].key = "partner_copy"
        /\ ~Undetected(k, "name_1")
        /\ Undetected(k, "name")
        /\ results[k].data.partner_1.name_1.kind = "Image"
        /\ results[k].data.partner_2.name = NoneValue

(***************************************************************************)
(* C9                                                                      *)
(***************************************************************************)
\* C9 as stated: every rectangle cropped lies within the image.
C9_CropWithinImage ==
    \A n \in DOMAIN detections :
        LET box == detections[n].box
            size == ImageSize(detections[n].src)
        IN  /\ 0 <= box[1] /\ box[3] <= size[1]
            /\ 0 <= box[2] /\ box[4] <= size[2]

\* C9 amended: no box is clamped: the rectangle cropped is the reported box
\* with each coordinate truncated to an integer, also where it reaches
\* outside the image, and cropping does not fail (the only ValueError of the
\* call is the one raised for an unknown type tag, after all boxes of the
\* item were cropped).
C9_CropsAreUnclamped ==
    /\ (pc = "reduce" /\ j > 0) =>
          LET d == Flatten(res)[j]
              stored == detections[ModelNames[d.cls + 1]]
          IN  /\ stored.kind = "Image"
              /\ stored.box = IntBox(d.xyxy)
              /\ stored.box[3] - stored.box[1]
                   = PyInt(d.xyxy[3]) - PyInt(d.xyxy[1])
    /\ pc = "reduce" => cropCalls = j
    /\ (pc = "raised" /\ error.kind = "ValueError") =>
          /\ images[idx].key \notin KnownKeys
          /\ j = Len(Flatten(res))

\* A box reaching past the right edge of the image was cropped as it is.
C9_Witness ==
    /\ pc = "reduce"
    /\ j > 0
    /\ LET d == Flatten(res)[j]
       IN  /\ PyInt(d.xyxy[3]) > img.size[1]
           /\ detections[ModelNames[d.cls + 1]].box[3] > img.size[1]

(***************************************************************************)
(* C10                                                                     *)
(***************************************************************************)
ClampTo(v, m) == IF v < 0 THEN 0 ELSE IF v > m THEN m ELSE v

\* The box clamped to an image of the given size.
Clamped(box, size) ==
    <<ClampTo(box[1], size[1]), ClampTo(box[2], size[2]),
      ClampTo(box[3], size[1]), ClampTo(box[4], size[2])>>

EmptyBox(box) == box[1] = box[3] \/ box[2] = box[4]

\* C10 as stated: a class whose last box is empty once clamped to the image
\* holds the absent marker None.
C10_EmptyBoxIsAbsent ==
    pc = "reduce" =>
        \A name \in ClassNames :
            LET k == LastOf(Flatten(res), j, name)
            IN  (k > 0 /\ EmptyBox(Clamped(IntBox(Flatten(res)[k].xyxy),
                                           img.size))) =>
                    Get(detections, name) = NoneValue

\* C10 amended: a class whose last box is empty once clamped to the image
\* holds an image object, never None: the crop of the truncated box as it
\* is (an image of zero width or height when the truncated box is empty),
\* and no error is raised for it.
C10_EmptyBoxIsAnImage ==
    /\ pc = "reduce" =>
          \A name \in ClassNames :
              LET k == LastOf(Flatten(res), j, name)
              IN  (k > 0 /\ EmptyBox(Clamped(IntBox(Flatten(res)[k].xyxy),
                                             img.size))) =>
                      /\ name \in DOMAIN detections
                      /\ detections[name] # NoneValue
                      /\ detections[name].kind = "Image"
                      /\ detections[name].box = IntBox(Flatten(res)[k].xyxy)
    /\ ~(pc = "raised" /\ idx > 0 /\ ~ItemFails(idx))

\* A box narrower than a pixel was stored as a crop of zero width.
C10_Witness ==
    /\ pc = "reduce"
    /\ \E name \in DOMAIN detections :
          /\ detections[name].kind = "Image"
          /\ detections[name].box[1] = detections[name].box[3]

(***************************************************************************)
(* C11                                                                     *)
(***************************************************************************)
\* C11: when the detection model cannot be loaded, the call fails as a whole
\* before the loop: no item is reached, no image is opened, no detection is
\* run, no box is cropped, no result is built or returned, and nothing
\* happens after the exception.
C11_ModelFailureBeforeItems ==
    ~modelFile =>
        /\ loads = 0
        /\ idx = 0
        /\ img = NoneValue
        /\ res = <<>>
        /\ cropCalls = 0
        /\ detections = EmptyDict
        /\ results = <<>>
        /\ returned = <<>>
        /\ outcome # "returned"
        /\ pc \in {"load_model", "raised"}
        /\ pc = "raised" =>
              /\ outcome = "raised"
              /\ error = [kind |-> "ModelLoadError", item |-> 0]
              /\ ~ENABLED Next

\* The model failed to load for a batch of three items none of which would
\* fail: the call has raised.
C11_Witness ==
    /\ ~modelFile
    /\ pc = "raised"
    /\ Len(images) = 3
    /\ \A i \in 1 .. 3 : ~ItemFails(i)

(***************************************************************************)
(* C12                                                                     *)
(***************************************************************************)
\* C12 as stated: however many invocations run in the process, the model is
\* loaded at most once.
C12_LoadedAtMostOnce == modelsLoaded <= 1

\* C12 amended: every invocation loads the model itself, once, before its
\* first item: the process has loaded as many model objects as invocations
\* got past the load, no two invocations hold the same model object, and an
\* invocation in or past its loop holds the one it loaded.
C12_LoadedOncePerInvocation ==
    /\ modelsLoaded = Cardinality({c \in Invocations : invModel[c] # 0})
    /\ \A c, d \in Invocations :
          (c # d /\ invModel[c] # 0) => invModel[c] # invModel[d]
    /\ \A c \in Invocations :
          /\ invPc[c] \in {"loop", "done"} => invModel[c] # 0
          /\ invPc[c] \in {"idle", "load_model"} => invModel[c] = 0
          /\ invModel[c] <= modelsLoaded

\* Two invocations are in their loops at the same time, each with a model
\* of its own.
C12_Witness ==
    /\ MaxCalls >= 2
    /\ invPc[1] = "loop"
    /\ invPc[2] = "loop"
    /\ invLeft[1] > 0
    /\ invLeft[2] > 0
    /\ modelsLoaded = 2
    /\ invModel[1] # invModel[2]

(***************************************************************************)
(* C15                                                                     *)
(***************************************************************************)
\* The values held by the fields of a record, whatever its variant.
FieldsOf(r) ==
    IF r.type = "outlet_copy"
    THEN {r.data.outlet_id}
    ELSE {r.data.partner_1[f] : f \in DOMAIN r.data.partner_1} \cup
         {r.data.partner_2[f] : f \in DOMAIN r.data.partner_2}

\* C15: the class-to-crop map is built fresh for each item, so the record at
\* index k is the one item k's tag and the detections of item k's image
\* determine: its crops are cut from item k's image only, the map under
\* construction holds classes of the current image only, and equal items
\* give equal records.
C15_FreshMapPerItem ==
    /\ \A k \in 1 .. Len(results) :
          /\ results[k] = Produced(k)
          /\ \A c \in FieldsOf(results[k]) :
                c # NoneValue => c.src = images[k].path
          /\ \A m \in 1 .. Len(results) :
                images[m] = images[k] => results[m] = results[k]
    /\ pc = "reduce" =>
          /\ j = 0 => detections = EmptyDict
          /\ \A n \in DOMAIN detections :
                /\ detections[n].src = images[idx].path
                /\ \E b \in 1 .. j : ModelNames[Flatten(res)[b].cls + 1] = n

\* Three partner items, the first and third on the same page, the second
\* on a page that lacks a class of the first: the second record has no crop
\* of the first page, the third equals the first.
C15_Witness ==
    /\ Len(results) = 3
    /\ images[1].key = "partner_copy"
    /\ images[2].key = "partner_copy"
    /\ images[3] = images[1]
    /\ images[1].path = "A.jpg"
    /\ images[2].path = "B.jpg"
    /\ DOMAIN ExpectedMap(1) \ DOMAIN ExpectedMap(2) # {}
    /\ \E c \in FieldsOf(results[1]) : c # NoneValue /\ c \notin FieldsOf(results[2])
    /\ \E c \in FieldsOf(results[2]) : c # NoneValue /\ c.src = "B.jpg"
    /\ results[3] = results[1]

(***************************************************************************)
(* C16                                                                     *)
(***************************************************************************)
\* The stages of an item by the statement the call is at: Pending until
\* its image is open ("loop", "open"), Detecting ("predict"), Reducing and
\* Cropping ("reduce"), Mapped (back at "loop" with its record appended),
\* Failed ("raised").

\* C16 as stated: an item that fails, one with an unknown tag included,
\* fails before anything was detected or cropped for it, and only the
\* detections that survive the reduction are cropped.
C16_FailFromPendingCropSurvivors ==
    [][ /\ (pc' = "raised" /\ pc # "raised") =>
              pc \in {"load_model", "open", "predict"}
        /\ (pc = "reduce" /\ pc' = "loop") =>
              cropCalls = Cardinality(DOMAIN detections) ]_vars

\* The steps an item can take.
ItemEdges ==
    {<<"loop", "open">>, <<"open", "predict">>, <<"predict", "reduce">>,
     <<"reduce", "reduce">>, <<"reduce", "loop">>, <<"open", "raised">>,
     <<"predict", "raised">>, <<"reduce", "raised">>}

\* C16 amended: an item goes Pending, Detecting, then one pass over its
\* detections in which each detection is cropped and stored at once, a
\* later one of its class replacing it (so every detection is cropped, not
\* only the survivors), then Mapped.  An item fails from the stage where
\* its exception arises: from Pending when its image does not open, from
\* Detecting when the detector raises, from the pass when a crop raises,
\* and for an unknown tag only after the whole pass, every detection
\* having been cropped.
C16_StagesOfTheCode ==
    [][ /\ (pc \notin {"load_model", "done", "raised"} /\ pc' # "done") =>
              <<pc, pc'>> \in ItemEdges
        /\ (pc = "reduce" /\ pc' = "reduce") =>
              /\ cropCalls' = cropCalls + 1
              /\ j' = j + 1
        /\ (pc = "reduce" /\ pc' = "loop") =>
              /\ cropCalls = Len(Flatten(res))
              /\ Cardinality(DOMAIN detections) <= cropCalls
              /\ KnownKey(Key)
              /\ Len(results') = Len(results) + 1
        /\ (pc = "open" /\ pc' = "raised") => error'.kind = "FileNotFoundError"
        /\ (pc = "predict" /\ pc' = "raised") => error'.kind = "DetectionError"
        /\ (pc = "reduce" /\ pc' = "raised") =>
              /\ error' = [kind |-> "ValueError", item |-> idx]
              /\ IF j < Len(Flatten(res))
                 THEN CropRaises(IntBox(Flatten(res)[j + 1].xyxy))
                 ELSE /\ ~KnownKey(Key)
                      /\ cropCalls = Len(Flatten(res)) ]_vars

\* An item with an unknown tag has failed after two detections of one
\* class were both cropped.
C16_Witness ==
    /\ pc = "raised"
    /\ idx \in 1 .. Len(images)
    /\ UnknownKey(idx)
    /\ error = [kind |-> "ValueError", item |-> idx]
    /\ j = 2
    /\ cropCalls = 2
    /\ Cardinality(DOMAIN detections) = 1

(***************************************************************************)
(* C13, C14: authentication of GET /api/health                            *)
(***************************************************************************)
\* The request answered last presented no token the API would accept at
\* that time: no header, no well-formed header, no JWT signed by the API,
\* or an issued token whose exp had been reached.
Unauthenticated ==
    \/ resp.auth.kind # "issued"
    \/ resp.auth.exp <= resp.at

IsJsonObject(v) == DOMAIN v \subseteq STRING

HealthSuccess ==
    /\ resp.code = 200
    /\ resp.status = "success"
    /\ resp.message = "ai api running"
    /\ IsJsonObject(resp.payload)

\* C13: a GET /api/health without an Authorization header or with an
\* invalid JWT is answered 401 with status "error" and the JWT error text
\* in payload.error_msg ("Missing Authorization Header" when there is no
\* header), never with the health handler's success response.
C13_UnauthenticatedHealthIs401 ==
    (resp.endpoint = "health" /\ Unauthenticated) =>
        /\ resp.code = 401
        /\ resp.status = "error"
        /\ DOMAIN resp.payload = {"error_msg"}
        /\ resp.payload.error_msg.type = "string"
        /\ resp.payload.error_msg.text # ""
        /\ resp.auth.kind = "none" =>
              resp.payload.error_msg = JsonString("Missing Authorization Header")
        /\ resp.message # "ai api running"
        /\ ~HealthSuccess

\* A health request with no header has been answered while a valid token
\* exists.
C13_Witness ==
    /\ resp.endpoint = "health"
    /\ resp.auth.kind = "none"
    /\ resp.code = 401
    /\ \E t \in issued : t > clock

C17_StatusMatchesTask ==
    /\ (resp.endpoint = "task" /\ resp.code = 200) =>
          LET p == resp.payload
              ready == resp.seen.status \in READY_STATES
          IN  /\ resp.status = "success"
              /\ p.state = JsonString(resp.seen.status)
              /\ ("result" \in DOMAIN p) <=> ready
              /\ ("progress" \in DOMAIN p) <=> ~ready
              /\ ~({"result", "progress"} \subseteq DOMAIN p)
              /\ ready =>
                    p.result = IF resp.seen.status = "SUCCESS"
                               THEN resp.seen.result
                               ELSE Str(resp.seen.result)
    /\ (resp.endpoint = "task" /\ resp.code \notin {200, 401}) =>
          /\ resp.code = 500
          /\ resp.status = "error"

\* A query read the task as PENDING, the worker then stored its SUCCESS,
\* and the answer names the state PENDING next to a result.
C17_Witness ==
    /\ resp.endpoint = "task"
    /\ resp.code = 200
    /\ resp.payload.state = JsonString("PENDING")
    /\ "result" \in DOMAIN resp.payload
    /\ resp.seen.status = "SUCCESS"
    /\ resp.payload.result = Str(resp.seen.result)
    /\ resp.payload.result # resp.seen.result

====
